---- MODULE Spec2Model ----
(***************************************************************************)
(* ExecStateFuzzer: the mutation engine (mutation_engine.py), the corpus   *)
(* stat tracker (corpus_stat_tracker.py), and the state projector and the  *)
(* execution harness (subprocess_execution.py), each as a state machine    *)
(* over its own variables.                                                 *)
(***************************************************************************)
EXTENDS Integers, Sequences, FiniteSets, TLC

VARIABLES
    \* MutationEngine
    operators,          \* self.operators: the names of the loaded operators
    rules,              \* self.rules: the strategy's rules, in declaration order
    mutation_history,   \* self.mutation_history: a set of digests
    pc,                 \* where the engine is: "idle" between calls, "select" and
                        \* "apply" inside mutate's loop, "return" and "raise" when
                        \* a call hands its result to the caller
    last_call,          \* the method that ran last: "init", "mutate" or "reload"
    raised,             \* the exception the last call raised ("" when none)
    data,               \* mutate's argument data
    mutation_context,   \* mutate's argument mutation_context
    num_mutations,      \* mutate's argument num_mutations
    iter,               \* iterations of mutate's outer loop already finished
    retry,              \* operator invocations already made in this iteration
    op_name,            \* the operator selected for this iteration
    mutations,          \* mutate's local list, its return value
    evicted,            \* history: the digests popped during the current mutate
    exhausted,          \* history: iterations of this mutate that used up max_retries
    history_before,     \* history: self.mutation_history when this mutate was called
    invoked,            \* history: this mutate has invoked an operator function
    \* CorpusStatTracker
    cov_bitmap,             \* self.cov_bitmap: the global edge bitmap
    branch_taken,           \* self.branch_taken
    branch_fallthrough,     \* self.branch_fallthrough
    instruction_addresses,  \* self.instruction_addresses
    total_instructions,     \* self.total_instructions
    pathlen_blocks_sum,     \* self.pathlen_blocks_sum
    pathlen_blocks_max,     \* self.pathlen_blocks_max
    calldepth_inside_sum,   \* self.calldepth_inside_sum
    calldepth_inside_max,   \* self.calldepth_inside_max
    cumulative_execution_time, \* self.cumulative_execution_time
    num_samples,            \* self.num_samples
    coverage_plateau_timeout,  \* self.coverage_plateau_timeout
    last_coverage_time,     \* self.last_coverage_time
    now,                    \* what time.time() returns
    tracker_pc,             \* "idle", or the tracker method whose result the caller holds
    plateau,                \* what is_coverage_plateau() returned
    stat_result,            \* what get_result() returned
    fresh_edge,             \* history: the last add_sample set a new edge and no
                            \* time has passed since
    \* The state projector of the execution harness
    state_spec,             \* the spec: the list of state-spec items
    state_dicts,            \* the state dicts handed to _dict_to_state_tuple
    state_tuples,           \* what _dict_to_state_tuple returned for each
    canonicalized,          \* the state dicts whose tuple has been computed
    execution_value_samples,   \* the observed values of each name, in emission order
    projected,              \* _compute_state_dict has returned the first state dict
    \* execute_binary
    harness_pc,             \* "idle", "called" or "returned"
    input_data,             \* execute_binary's argument input_data
    run_config,             \* execute_binary's argument run_config
    executor_outcome,       \* what subprocess.run does with the target
    execution_result,       \* the BinaryExecutionResult execute_binary returned
    \* The ensure_unique decorator of operators.py
    MUTATION_HISTORY,       \* the module's set of digests
    wrapper_pc,             \* "idle", "loop" inside the retry loop, or "return"
    input_str,              \* the wrapper's argument input_str
    attempts,               \* passes of the retry loop already made
    wrapper_result          \* the string the wrapper returned

engineVars == <<operators, rules, mutation_history, pc, last_call, raised, data,
                mutation_context, num_mutations, iter, retry, op_name, mutations,
                evicted, exhausted, history_before, invoked>>

trackerVars == <<cov_bitmap, branch_taken, branch_fallthrough, instruction_addresses,
                 total_instructions, pathlen_blocks_sum, pathlen_blocks_max,
                 calldepth_inside_sum, calldepth_inside_max, cumulative_execution_time,
                 num_samples, coverage_plateau_timeout, last_coverage_time, now,
                 tracker_pc, plateau, stat_result, fresh_edge>>

projectorVars == <<state_spec, state_dicts, state_tuples, canonicalized,
                   execution_value_samples, projected>>

harnessVars == <<harness_pc, input_data, run_config, executor_outcome,
                 execution_result>>

decoratorVars == <<MUTATION_HISTORY, wrapper_pc, input_str, attempts, wrapper_result>>

vars == <<engineVars, trackerVars, projectorVars, harnessVars, decoratorVars>>

----------------------------------------------------------------------------
(* Bounds of the model *)

\* The cap of the mutation history (1000 in the source), scaled down so that
\* the cap is reached and eviction happens.
max_mutation_history_size == 3

\* The largest num_mutations a caller passes to mutate.
MaxBatch == 3

\* The length of the tracker's bitmaps, the constructor's MAP_SIZE.
MAP_SIZE == 2

\* The largest number of samples added to one tracker.
MaxSamples == 3

\* The last tick of the clock.
MaxTime == 2

\* The longest list of observed values of one name.
MaxSteps == 3

\* The longest list of observed values of the name the set items collect.
MaxSetSamples == 4

\* The most lines the target writes to its stdout.
MaxLines == 3

\* The cap of the decorator's history (1000 in the source), scaled down so
\* that the cap is reached.
MAX_HISTORY_SIZE == 2

(* Program constants *)

max_retries == 5

\* ensure_unique's default max_retries.
ensure_unique_max_retries == 5

----------------------------------------------------------------------------
(* Values *)

\* Python's None, for a rule without a condition.
None == "None"

\* The inputs handed to mutate, and what a randomized operator appends.
Inputs == {"x", "y"}
RandomSuffixes == {"a", "b"}

\* hashlib.md5(mutated_data).digest(): a digest is not the byte string; MD5 is
\* taken to be collision free on the byte strings of the model.
md5(bytes) == "md5:" \o bytes

\* The mutation contexts handed to mutate: dicts from names to integers.
EmptyDict == [k \in {} |-> 0]
MutationContexts == {EmptyDict, [n |-> 0], [n |-> 1]}

----------------------------------------------------------------------------
(* The predicate evaluator (utils.eval_predicate_expression) *)

Lit(v) == [k |-> "lit", n |-> "", v |-> v]
Id(n) == [k |-> "id", n |-> n, v |-> 0]
Op(o) == [k |-> o, n |-> "", v |-> 0]

\* The expressions of the model, parsed to postfix.
ParseExpression(expr) ==
    CASE expr = "n == 0" -> <<Id("n"), Lit(0), Op("==")>>
      [] expr = "n == 1" -> <<Id("n"), Lit(1), Op("==")>>
      [] expr = "n > 0" -> <<Id("n"), Lit(0), Op(">")>>
      [] expr = "not n" -> <<Id("n"), Op("not")>>
      [] expr = "1 / n > 0" -> <<Lit(1), Id("n"), Op("/"), Lit(0), Op(">")>>
      [] expr = "x > 3" -> <<Id("x"), Lit(3), Op(">")>>
      [] expr = "a and b" -> <<Id("a"), Id("b"), Op("and")>>
      [] expr = "a or b" -> <<Id("a"), Id("b"), Op("or")>>
      [] OTHER -> <<Op("syntax error")>>

Bool(b) == IF b THEN 1 ELSE 0

\* One token applied to the evaluation stack; err is set by a division by
\* zero or a malformed expression.
EvalToken(st, tok, env) ==
    LET s == st.stack
        m == Len(s)
        Push(x) == [err |-> st.err, stack |-> Append(s, x)]
        Bin(x) == [err |-> st.err, stack |-> Append(SubSeq(s, 1, m - 2), x)]
        Fail == [err |-> TRUE, stack |-> <<>>]
    IN  IF st.err THEN st
        ELSE IF tok.k = "lit" THEN Push(tok.v)
        ELSE IF tok.k = "id"
            THEN Push(IF tok.n \in DOMAIN env THEN env[tok.n] ELSE 0)
        ELSE IF tok.k = "not"
            THEN IF m < 1 THEN Fail
                 ELSE [err |-> FALSE,
                       stack |-> Append(SubSeq(s, 1, m - 1), Bool(s[m] = 0))]
        ELSE IF m < 2 THEN Fail
        ELSE IF tok.k = "==" THEN Bin(Bool(s[m - 1] = s[m]))
        ELSE IF tok.k = ">" THEN Bin(Bool(s[m - 1] > s[m]))
        ELSE IF tok.k = "and" THEN Bin(IF s[m - 1] = 0 THEN s[m - 1] ELSE s[m])
        ELSE IF tok.k = "or" THEN Bin(IF s[m - 1] /= 0 THEN s[m - 1] ELSE s[m])
        ELSE IF tok.k = "/"
            THEN IF s[m] = 0 THEN Fail ELSE Bin(s[m - 1] \div s[m])
        ELSE Fail

RECURSIVE EvalTokens(_, _, _, _)
EvalTokens(toks, i, st, env) ==
    IF i > Len(toks) THEN st
    ELSE EvalTokens(toks, i + 1, EvalToken(st, toks[i], env), env)

\* eval_predicate_expression(expr, env): the truth of the expression's value;
\* an unknown identifier is 0, an evaluation error makes the predicate false.
eval_predicate_expression(expr, env) ==
    LET st == EvalTokens(ParseExpression(expr), 1, [err |-> FALSE, stack |-> <<>>], env)
    IN  ~st.err /\ Len(st.stack) = 1 /\ st.stack[1] /= 0

----------------------------------------------------------------------------
(* The operators source and the strategy document: the files the loaders read *)

Callable(name, params) == [name |-> name, params |-> params]

\* What the operators file can hold when a loader reads it.
OperatorsFiles ==
    { [exists |-> TRUE, importable |-> TRUE,
       callables |-> {Callable("always_same", 2), Callable("insert_random_bytes", 2),
                      Callable("failing", 2), Callable("ensure_unique", 1),
                      Callable("_helper", 2)}],
      [exists |-> TRUE, importable |-> TRUE,
       callables |-> {Callable("always_same", 2), Callable("ensure_unique", 1)}],
      [exists |-> TRUE, importable |-> FALSE, callables |-> {}],
      [exists |-> FALSE, importable |-> FALSE, callables |-> {}] }

\* A name that starts with an underscore.
IsPrivate(name) == name \in {"_helper"}

\* What an operator returns for an input: a set of strings; the empty set for
\* an operator that raises.
OperatorOutputs(name, input) ==
    CASE name = "always_same" -> {"same"}
      [] name = "insert_random_bytes" -> {input \o s : s \in RandomSuffixes}
      [] OTHER -> {}

OpEntry(name, weight) == [pair |-> TRUE, name |-> name, numeric |-> TRUE, weight |-> weight]
Rule(condition, entries) ==
    [condition |-> condition, has_operators |-> TRUE, is_list |-> TRUE, operators |-> entries]

\* What the strategy file can hold when the loader reads it.
StrategyFiles ==
    { [exists |-> TRUE, parses |-> TRUE,
       rules |-> << Rule("n == 0", <<OpEntry("always_same", 1)>>),
                    Rule(None, <<OpEntry("insert_random_bytes", 1)>>) >>],
      [exists |-> TRUE, parses |-> TRUE,
       rules |-> << Rule(None, <<OpEntry("always_same", 1)>>) >>],
      [exists |-> TRUE, parses |-> TRUE,
       rules |-> << Rule("n == 1", <<OpEntry("insert_random_bytes", 2),
                                     OpEntry("failing", 1)>>),
                    Rule("1 / n > 0", <<OpEntry("always_same", 1)>>),
                    Rule("n > 0", <<OpEntry("insert_random_bytes", 1)>>) >>],
      [exists |-> TRUE, parses |-> TRUE, rules |-> << >>],
      [exists |-> TRUE, parses |-> TRUE,
       rules |-> << [condition |-> None, has_operators |-> FALSE, is_list |-> FALSE,
                     operators |-> << >>] >>],
      [exists |-> TRUE, parses |-> TRUE,
       rules |-> << Rule(None, <<OpEntry("always_same", 0)>>) >>],
      [exists |-> TRUE, parses |-> TRUE,
       rules |-> << Rule("n == 0", << >>),
                    Rule(None, <<OpEntry("always_same", 1)>>) >>],
      [exists |-> TRUE, parses |-> FALSE, rules |-> << >>],
      [exists |-> FALSE, parses |-> FALSE, rules |-> << >>] }

----------------------------------------------------------------------------
(* MutationEngine: the loaders *)

\* _load_operators: the new self.operators and the exception raised, if any.
\* self.operators is assigned only after the module was executed.
load_operators(file, current) ==
    IF ~file.exists THEN [raised |-> "FileNotFoundError", operators |-> current]
    ELSE IF ~file.importable THEN [raised |-> "ImportError", operators |-> current]
    ELSE [raised |-> "",
          operators |-> {c.name : c \in {c \in file.callables :
                                           ~IsPrivate(c.name) /\ c.params >= 2}}]

\* The checks _load_strategy makes on one operator entry.
EntryValid(entry, ops) ==
    /\ entry.pair
    /\ entry.name \in ops
    /\ entry.numeric
    /\ entry.weight > 0

\* The checks _load_strategy makes on one rule.
RuleValid(rule, ops) ==
    /\ rule.has_operators
    /\ rule.is_list
    /\ \A i \in 1..Len(rule.operators) : EntryValid(rule.operators[i], ops)

\* _load_strategy: the new self.rules and the exception raised, if any.
\* self.rules is assigned before the rules are validated.
load_strategy(file, ops, current) ==
    IF ~file.exists THEN [raised |-> "FileNotFoundError", rules |-> current]
    ELSE IF ~file.parses THEN [raised |-> "JSONDecodeError", rules |-> current]
    ELSE [raised |-> IF \A i \in 1..Len(file.rules) : RuleValid(file.rules[i], ops)
                     THEN "" ELSE "ValueError",
          rules |-> file.rules]

\* reload(): both loaders in turn; the second runs only if the first returned.
reload(ofile, sfile, ops, rls) ==
    LET lo == load_operators(ofile, ops)
        ls == load_strategy(sfile, lo.operators, rls)
    IN  IF lo.raised /= ""
        THEN [raised |-> lo.raised, operators |-> lo.operators, rules |-> rls]
        ELSE [raised |-> ls.raised, operators |-> lo.operators, rules |-> ls.rules]

----------------------------------------------------------------------------
(* MutationEngine: rule and operator selection *)

RECURSIVE select_rule_from(_, _, _)
\* The loop of select_rule from rule i on: the index of the rule returned,
\* 0 for None.
select_rule_from(rls, ctx, i) ==
    IF i > Len(rls) THEN 0
    ELSE IF rls[i].condition = None THEN i
    ELSE IF eval_predicate_expression(rls[i].condition, ctx) THEN i
    ELSE select_rule_from(rls, ctx, i + 1)

RECURSIVE select_rule_last_from(_, _, _)
select_rule_last_from(rls, ctx, i) ==
    IF i < 1 THEN 0
    ELSE IF rls[i].condition = None THEN i
    ELSE IF eval_predicate_expression(rls[i].condition, ctx) THEN i
    ELSE select_rule_last_from(rls, ctx, i - 1)

\* select_rule with the rules walked from the last one.
select_rule_last(rls, ctx) == select_rule_last_from(rls, ctx, Len(rls))

select_rule(rls, ctx) == select_rule_from(rls, ctx, 1)

RECURSIVE SumWeights(_, _)
SumWeights(entries, i) ==
    IF i > Len(entries) THEN 0 ELSE entries[i].weight + SumWeights(entries, i + 1)

\* select_operator raises instead of returning a name: the rule has no
\* operators list to read, an entry has no name and weight, or random.choices
\* rejects the weights (none, not numbers, or a total that is not positive).
select_operator_raises(rule) ==
    \/ ~rule.has_operators
    \/ ~rule.is_list
    \/ rule.operators = << >>
    \/ \E i \in 1..Len(rule.operators) :
          ~rule.operators[i].pair \/ ~rule.operators[i].numeric
    \/ SumWeights(rule.operators, 1) <= 0

\* select_operator: the names random.choices can return, those of positive weight.
select_operator(rule) ==
    {rule.operators[i].name : i \in {j \in 1..Len(rule.operators) :
                                        rule.operators[j].weight > 0}}

----------------------------------------------------------------------------
(* MutationEngine: mutate *)

\* The test that guards the eviction at the end of an iteration.
EvictionDue_batch(history, batch) == Len(batch) >= max_mutation_history_size
EvictionDue(history, batch) == Cardinality(history) >= max_mutation_history_size

\* The novelty test on the digest of an operator's result.
IsNovel_always(digest, history) == TRUE
IsNovel(digest, history) == digest \notin history

\* A call has finished: its result, or its exception, is the caller's to see.
CallDone == pc \in {"return", "raise"}

\* The engine leaves a call by an exception.
Raise_return(error) ==
    /\ pc' = "return"
    /\ raised' = ""
Raise(error) ==
    /\ pc' = "raise"
    /\ raised' = error

\* mutate is called: the guards before the loop, and a loop of zero iterations.
MutateCall ==
    /\ pc = "idle"
    /\ \E d \in Inputs, ctx \in MutationContexts, n \in 0..MaxBatch :
          /\ data' = d
          /\ mutation_context' = ctx
          /\ num_mutations' = n
    /\ last_call' = "mutate"
    /\ mutations' = << >>
    /\ evicted' = {}
    /\ exhausted' = 0
    /\ iter' = 0
    /\ retry' = 0
    /\ op_name' = ""
    /\ history_before' = mutation_history
    /\ invoked' = FALSE
    /\ IF operators = {} THEN Raise("ValueError: No operators loaded")
       ELSE IF rules = << >> THEN Raise("ValueError: No rules defined in strategy")
       ELSE /\ raised' = ""
            /\ pc' = IF num_mutations' = 0 THEN "return" ELSE "select"
    /\ UNCHANGED <<operators, rules, mutation_history>>

\* The head of an iteration: select the rule, the operator and its function.
MutateSelect ==
    /\ pc = "select"
    /\ LET r == select_rule(rules, mutation_context)
       IN  IF r = 0 THEN Raise("ValueError: No matching rule") /\ UNCHANGED op_name
           ELSE IF select_operator_raises(rules[r])
               THEN Raise("select_operator") /\ UNCHANGED op_name
           ELSE \E name \in select_operator(rules[r]) :
                   /\ op_name' = name
                   /\ IF name \in operators
                      THEN pc' = "apply" /\ UNCHANGED raised
                      ELSE Raise("KeyError")
    /\ retry' = 0
    /\ UNCHANGED <<operators, rules, mutation_history, last_call, data,
                   mutation_context, num_mutations, iter, mutations, evicted,
                   exhausted, history_before, invoked>>

\* The end of an iteration, reached by the break or by the end of the retry
\* loop: the eviction, then the next iteration or the return.
EndIteration(history) ==
    /\ IF EvictionDue(history, mutations')
       THEN \E d \in history :
               /\ mutation_history' = history \ {d}
               /\ evicted' = evicted \cup {d}
       ELSE mutation_history' = history /\ UNCHANGED evicted
    /\ iter' = iter + 1
    /\ retry' = 0
    /\ pc' = IF iter + 1 = num_mutations THEN "return" ELSE "select"
    /\ UNCHANGED raised

\* One pass of the retry loop: the operator is invoked once.
MutateApply ==
    /\ pc = "apply"
    /\ \/ \* the operator, or the encoding of what it returned, raises
          /\ OperatorOutputs(op_name, data) = {}
          /\ Raise("RuntimeError")
          /\ UNCHANGED <<mutation_history, mutations, iter, retry, evicted, exhausted>>
       \/ \E mutated_data \in OperatorOutputs(op_name, data) :
             LET m_hash == md5(mutated_data)
             IN  IF IsNovel(m_hash, mutation_history)
                 THEN /\ mutations' = Append(mutations, <<mutated_data, op_name>>)
                      /\ EndIteration(mutation_history \cup {m_hash})
                      /\ UNCHANGED exhausted
                 ELSE IF retry + 1 < max_retries
                 THEN /\ retry' = retry + 1
                      /\ UNCHANGED <<mutation_history, mutations, iter, pc, raised,
                                     evicted, exhausted>>
                 ELSE /\ mutations' = mutations
                      /\ exhausted' = exhausted + 1
                      /\ EndIteration(mutation_history)
    /\ invoked' = TRUE
    /\ UNCHANGED <<operators, rules, last_call, data, mutation_context,
                   num_mutations, op_name, history_before>>

\* reload() is called between two mutate calls.
Reload ==
    /\ pc = "idle"
    /\ \E ofile \in OperatorsFiles, sfile \in StrategyFiles :
          LET r == reload(ofile, sfile, operators, rules)
          IN  /\ operators' = r.operators
              /\ rules' = r.rules
              /\ raised' = r.raised
              /\ pc' = IF r.raised = "" THEN "return" ELSE "raise"
    /\ last_call' = "reload"
    /\ UNCHANGED <<mutation_history, data, mutation_context, num_mutations, iter,
                   retry, op_name, mutations, evicted, exhausted, history_before,
                   invoked>>

\* The caller has the result of the call, or has caught its exception: the
\* frame of the call is gone.
CallReturns ==
    /\ CallDone
    /\ pc' = "idle"
    /\ raised' = ""
    /\ data' = "x"
    /\ mutation_context' = EmptyDict
    /\ num_mutations' = 0
    /\ iter' = 0
    /\ retry' = 0
    /\ op_name' = ""
    /\ mutations' = << >>
    /\ evicted' = {}
    /\ exhausted' = 0
    /\ history_before' = {}
    /\ invoked' = FALSE
    /\ UNCHANGED <<operators, rules, mutation_history, last_call>>

\* An engine nobody calls.
EngineAtRest ==
    /\ operators = {}
    /\ rules = << >>
    /\ mutation_history = {}
    /\ pc = "idle"
    /\ last_call = "init"
    /\ raised = ""
    /\ data = "x"
    /\ mutation_context = EmptyDict
    /\ num_mutations = 0
    /\ iter = 0
    /\ retry = 0
    /\ op_name = ""
    /\ mutations = << >>
    /\ evicted = {}
    /\ exhausted = 0
    /\ history_before = {}
    /\ invoked = FALSE

\* The engine after its constructor returned: both loaders succeeded.
EngineInit ==
    /\ \E ofile \in OperatorsFiles, sfile \in StrategyFiles :
          LET r == reload(ofile, sfile, {}, << >>)
          IN  /\ r.raised = ""
              /\ operators = r.operators
              /\ rules = r.rules
    /\ mutation_history = {}
    /\ pc = "idle"
    /\ last_call = "init"
    /\ raised = ""
    /\ data = "x"
    /\ mutation_context = EmptyDict
    /\ num_mutations = 0
    /\ iter = 0
    /\ retry = 0
    /\ op_name = ""
    /\ mutations = << >>
    /\ evicted = {}
    /\ exhausted = 0
    /\ history_before = {}
    /\ invoked = FALSE

----------------------------------------------------------------------------
(* CorpusStatTracker *)

\* bytearray(MAP_SIZE)
ZeroBitmap == [i \in 1..MAP_SIZE |-> 0]

\* The byte values of a sample's bitmaps.
SampleBytes == {0, 255}

\* The bitmaps a sample carries; each has the length MAP_SIZE.
SampleBitmaps == [1..MAP_SIZE -> SampleBytes]

\* A bitmap the sample does not carry (None).
NoBitmap == << >>

\* The branch bitmaps a sample carries: the branch at the first site taken or
\* not, the branch at the last site fallen through or not.
TakenBitmaps == {[i \in 1..MAP_SIZE |-> IF i = 1 /\ b THEN 255 ELSE 0] : b \in BOOLEAN}
FallthroughBitmaps ==
    {[i \in 1..MAP_SIZE |-> IF i = MAP_SIZE /\ b THEN 255 ELSE 0] : b \in BOOLEAN}

\* The configured plateau timeouts, in ticks of the clock.
PlateauTimeouts == {0, 1, 2}

\* The sets of instruction addresses a sample carries (None as the empty set).
SampleAddressSets == {{}, {4096}}

\* The counters a sample carries.
SampleMetrics ==
    { [total_instructions |-> 2, pathlen_blocks |-> 1, call_depth |-> 1,
       execution_time |-> 1] }

\* The samples handed to add_sample.
Samples ==
    [cov_bitmap : SampleBitmaps \cup {NoBitmap},
     branch_taken_bitmap : TakenBitmaps \cup {NoBitmap},
     branch_fallthrough_bitmap : FallthroughBitmaps \cup {NoBitmap},
     instr_address_set : SampleAddressSets,
     metrics : SampleMetrics]

Max(a, b) == IF a >= b THEN a ELSE b

\* The loop that folds a sample's edge bitmap into the global one.
MergeEdges_copy(gb, rb) == [i \in 1..Len(gb) |-> IF rb[i] /= 0 THEN 1 ELSE 0]
MergeEdges(gb, rb) ==
    [i \in 1..Len(gb) |-> IF rb[i] /= 0 /\ gb[i] = 0 THEN 1 ELSE gb[i]]

\* new_edge_coverage after that loop.
NewEdgeCoverage(gb, rb) == \E i \in 1..Len(gb) : rb[i] /= 0 /\ gb[i] = 0

\* The loop that folds a sample's branch bitmap into the global one.
MergeBranch(gb, rb) == [i \in 1..MAP_SIZE |-> IF rb[i] /= 0 THEN 1 ELSE gb[i]]

\* self.last_coverage_time after add_sample: refreshed when a new edge was found.
CoverageTimeAfterSample_stale(new_edge_coverage, time, last) == last
CoverageTimeAfterSample_always(new_edge_coverage, time, last) == time
CoverageTimeAfterSample(new_edge_coverage, time, last) ==
    IF new_edge_coverage THEN time ELSE last

\* get_result's total_edges.
total_edges(gb) == Cardinality({i \in 1..Len(gb) : gb[i] /= 0})

\* get_result's total_branch_sites.
total_branch_sites(bt, bf) ==
    Cardinality({i \in 1..Max(0, IF Len(bt) <= Len(bf) THEN Len(bt) ELSE Len(bf)) :
                    bt[i] /= 0 \/ bf[i] /= 0})

\* is_coverage_plateau's test.
is_coverage_plateau(current_time, last, timeout) == current_time - last >= timeout

NoResult ==
    [total_edges |-> 0, total_branch_sites |-> 0, total_unique_instructions |-> 0,
     avg_pathlen_blocks |-> <<0, 1>>, max_pathlen_blocks |-> 0,
     avg_calldepth |-> <<0, 1>>, max_calldepth |-> 0]

\* add_sample(sample).
AddSampleOf(sample) ==
    /\ tracker_pc = "idle"
    /\ num_samples < MaxSamples
    /\ LET new_edge_coverage ==
                sample.cov_bitmap /= NoBitmap /\ NewEdgeCoverage(cov_bitmap, sample.cov_bitmap)
            both == sample.branch_taken_bitmap /= NoBitmap
                      /\ sample.branch_fallthrough_bitmap /= NoBitmap
        IN  /\ cov_bitmap' = IF sample.cov_bitmap /= NoBitmap
                             THEN MergeEdges(cov_bitmap, sample.cov_bitmap)
                             ELSE cov_bitmap
            /\ branch_taken' = IF both
                               THEN MergeBranch(branch_taken, sample.branch_taken_bitmap)
                               ELSE branch_taken
            /\ branch_fallthrough' =
                  IF both
                  THEN MergeBranch(branch_fallthrough, sample.branch_fallthrough_bitmap)
                  ELSE branch_fallthrough
            /\ instruction_addresses' = instruction_addresses \cup sample.instr_address_set
            /\ last_coverage_time' =
                  CoverageTimeAfterSample(new_edge_coverage, now, last_coverage_time)
            /\ fresh_edge' = new_edge_coverage
            /\ total_instructions' = total_instructions + sample.metrics.total_instructions
            /\ pathlen_blocks_sum' = pathlen_blocks_sum + sample.metrics.pathlen_blocks
            /\ pathlen_blocks_max' = Max(pathlen_blocks_max, sample.metrics.pathlen_blocks)
            /\ calldepth_inside_sum' = calldepth_inside_sum + sample.metrics.call_depth
            /\ calldepth_inside_max' = Max(calldepth_inside_max, sample.metrics.call_depth)
            /\ cumulative_execution_time' =
                  cumulative_execution_time + sample.metrics.execution_time
    /\ num_samples' = num_samples + 1
    /\ UNCHANGED <<coverage_plateau_timeout, now, tracker_pc, plateau, stat_result>>

\* add_sample is called with some sample.
AddSample == \E sample \in Samples : AddSampleOf(sample)

\* get_result(): on a tracker without samples the averages divide by zero.
GetResult ==
    /\ tracker_pc = "idle"
    /\ IF num_samples = 0
       THEN /\ tracker_pc' = "ZeroDivisionError"
            /\ UNCHANGED stat_result
       ELSE /\ tracker_pc' = "get_result"
            /\ stat_result' =
                  [total_edges |-> total_edges(cov_bitmap),
                   total_branch_sites |-> total_branch_sites(branch_taken, branch_fallthrough),
                   total_unique_instructions |-> Cardinality(instruction_addresses),
                   avg_pathlen_blocks |-> <<pathlen_blocks_sum, num_samples>>,
                   max_pathlen_blocks |-> pathlen_blocks_max,
                   avg_calldepth |-> <<calldepth_inside_sum, num_samples>>,
                   max_calldepth |-> calldepth_inside_max]
    /\ UNCHANGED <<cov_bitmap, branch_taken, branch_fallthrough, instruction_addresses,
                   total_instructions, pathlen_blocks_sum, pathlen_blocks_max,
                   calldepth_inside_sum, calldepth_inside_max, cumulative_execution_time,
                   num_samples, coverage_plateau_timeout, last_coverage_time, now,
                   plateau, fresh_edge>>

IsCoveragePlateau ==
    /\ tracker_pc = "idle"
    /\ tracker_pc' = "is_coverage_plateau"
    /\ plateau' = is_coverage_plateau(now, last_coverage_time, coverage_plateau_timeout)
    /\ UNCHANGED <<cov_bitmap, branch_taken, branch_fallthrough, instruction_addresses,
                   total_instructions, pathlen_blocks_sum, pathlen_blocks_max,
                   calldepth_inside_sum, calldepth_inside_max, cumulative_execution_time,
                   num_samples, coverage_plateau_timeout, last_coverage_time, now,
                   stat_result, fresh_edge>>

\* reset_time_since_last_coverage(), called from outside add_sample.
ResetTimeSinceLastCoverage ==
    /\ tracker_pc = "idle"
    /\ tracker_pc' = "reset_time_since_last_coverage"
    /\ last_coverage_time' = now
    /\ fresh_edge' = FALSE
    /\ UNCHANGED <<cov_bitmap, branch_taken, branch_fallthrough, instruction_addresses,
                   total_instructions, pathlen_blocks_sum, pathlen_blocks_max,
                   calldepth_inside_sum, calldepth_inside_max, cumulative_execution_time,
                   num_samples, coverage_plateau_timeout, now, plateau, stat_result>>

\* The caller has the result of get_result, is_coverage_plateau or
\* reset_time_since_last_coverage.
TrackerReturns ==
    /\ tracker_pc /= "idle"
    /\ tracker_pc' = "idle"
    /\ plateau' = FALSE
    /\ stat_result' = NoResult
    /\ UNCHANGED <<cov_bitmap, branch_taken, branch_fallthrough, instruction_addresses,
                   total_instructions, pathlen_blocks_sum, pathlen_blocks_max,
                   calldepth_inside_sum, calldepth_inside_max, cumulative_execution_time,
                   num_samples, coverage_plateau_timeout, last_coverage_time, now,
                   fresh_edge>>

\* Time passes between two calls.
Tick ==
    /\ tracker_pc = "idle"
    /\ now < MaxTime
    /\ now' = now + 1
    /\ fresh_edge' = FALSE
    /\ UNCHANGED <<cov_bitmap, branch_taken, branch_fallthrough, instruction_addresses,
                   total_instructions, pathlen_blocks_sum, pathlen_blocks_max,
                   calldepth_inside_sum, calldepth_inside_max, cumulative_execution_time,
                   num_samples, coverage_plateau_timeout, last_coverage_time,
                   tracker_pc, plateau, stat_result>>

\* A tracker nobody calls.
TrackerAtRest ==
    /\ cov_bitmap = ZeroBitmap
    /\ branch_taken = ZeroBitmap
    /\ branch_fallthrough = ZeroBitmap
    /\ instruction_addresses = {}
    /\ total_instructions = 0
    /\ pathlen_blocks_sum = 0
    /\ pathlen_blocks_max = 0
    /\ calldepth_inside_sum = 0
    /\ calldepth_inside_max = 0
    /\ cumulative_execution_time = 0
    /\ num_samples = 0
    /\ coverage_plateau_timeout = 1
    /\ last_coverage_time = 0
    /\ now = 0
    /\ tracker_pc = "idle"
    /\ plateau = FALSE
    /\ stat_result = NoResult
    /\ fresh_edge = FALSE

\* The tracker after its constructor returned, for each configured timeout.
TrackerInit ==
    /\ cov_bitmap = ZeroBitmap
    /\ branch_taken = ZeroBitmap
    /\ branch_fallthrough = ZeroBitmap
    /\ instruction_addresses = {}
    /\ total_instructions = 0
    /\ pathlen_blocks_sum = 0
    /\ pathlen_blocks_max = 0
    /\ calldepth_inside_sum = 0
    /\ calldepth_inside_max = 0
    /\ cumulative_execution_time = 0
    /\ num_samples = 0
    /\ coverage_plateau_timeout \in PlateauTimeouts
    /\ last_coverage_time = 0
    /\ now = 0
    /\ tracker_pc = "idle"
    /\ plateau = FALSE
    /\ stat_result = NoResult
    /\ fresh_edge = FALSE

----------------------------------------------------------------------------
(* The state projector: _dict_to_state_tuple *)

\* Python values: an int, a str, or a tuple of such values.
IntVal(i) == [type |-> "int", int |-> i, str |-> "", items |-> << >>]
StrVal(t) == [type |-> "str", int |-> 0, str |-> t, items |-> << >>]
TupleVal(q) == [type |-> "tuple", int |-> 0, str |-> "", items |-> q]

\* A state-spec item: its type, and its name or its expression.
Item(type, key) ==
    [type |-> type,
     name |-> IF type \in {"predicate", "counter"} THEN "" ELSE key,
     expr |-> IF type \in {"predicate", "counter"} THEN key ELSE ""]

\* The specs of the model.
StateSpecs ==
    { << Item("value", "x"), Item("sum", "y"), Item("set", "e") >>,
      << Item("predicate", "x > 3"), Item("counter", "a and b"), Item("value", "x") >>,
      << Item("value", "x"), Item("set", "x") >>,
      << Item("predicate", "x (value)"), Item("value", "x") >> }

\* The key of an item in the state dict.
DisplayKey(item) == IF item.type \in {"predicate", "counter"} THEN item.expr ELSE item.name

DisplayKeys(spec) == {DisplayKey(spec[i]) : i \in 1..Len(spec)}

\* The values of the state dicts of the model.
DictValues == {IntVal(1), IntVal(5), TupleVal(<<IntVal(1), IntVal(2)>>)}

\* The state dicts whose keys are display keys of the spec.
StateDictsOf(spec) == UNION {[K -> DictValues] : K \in SUBSET DisplayKeys(spec)}

\* What _dict_to_state_tuple appends before the value of an item.
ItemLabel(item) ==
    CASE item.type = "value" -> item.name \o " (value)"
      [] item.type = "sum" -> item.name \o " (sum)"
      [] item.type = "predicate" -> item.expr
      [] item.type = "counter" -> item.expr \o " (count)"
      [] item.type = "set" -> item.name \o " (set)"

RECURSIVE dict_to_state_tuple_from(_, _, _)
\* The loop of _dict_to_state_tuple from item i on.
dict_to_state_tuple_from(spec, state_dict, i) ==
    IF i > Len(spec) THEN << >>
    ELSE IF DisplayKey(spec[i]) \in DOMAIN state_dict
        THEN <<StrVal(ItemLabel(spec[i])), state_dict[DisplayKey(spec[i])]>>
                \o dict_to_state_tuple_from(spec, state_dict, i + 1)
        ELSE dict_to_state_tuple_from(spec, state_dict, i + 1)

dict_to_state_tuple(spec, state_dict) == dict_to_state_tuple_from(spec, state_dict, 1)

\* _dict_to_state_tuple is called on one of the state dicts.
Canonicalize ==
    /\ \E which \in {1, 2} \ canonicalized :
          /\ state_tuples' =
                [state_tuples EXCEPT ![which] =
                    dict_to_state_tuple(state_spec, state_dicts[which])]
          /\ canonicalized' = canonicalized \cup {which}
    /\ UNCHANGED <<state_spec, state_dicts, execution_value_samples, projected>>

\* A projector nobody calls.
ProjectorAtRest ==
    /\ state_spec = << >>
    /\ state_dicts = <<EmptyDict, EmptyDict>>
    /\ state_tuples = << << >>, << >> >>
    /\ canonicalized = {}
    /\ execution_value_samples = EmptyDict
    /\ projected = FALSE

\* A spec and two state dicts over its display keys.
ProjectorInit ==
    /\ state_spec \in StateSpecs
    /\ \E d1 \in StateDictsOf(state_spec), d2 \in StateDictsOf(state_spec) :
          state_dicts = <<d1, d2>>
    /\ state_tuples = << << >>, << >> >>
    /\ canonicalized = {}
    /\ execution_value_samples = EmptyDict
    /\ projected = FALSE

----------------------------------------------------------------------------
(* The state projector: _compute_state_dict *)

\* utils.coerce_value_to_int on an observed int.
coerce_value_to_int(v) == CASE v.type = "int" -> v.int

\* How sorted() orders the strings of the model.
StringRank(t) ==
    CASE t = "" -> 0
      [] t = "42" -> 1
      [] t = "7" -> 2
      [] t = "ab" -> 3
      [] t = "b" -> 4
      [] t = "true" -> 5

\* v < w for two ints or two strs, as sorted() compares them.
PyLess_reversed(v, w) ==
    IF v.type = "int" THEN v.int > w.int ELSE StringRank(v.str) > StringRank(w.str)
PyLess(v, w) ==
    IF v.type = "int" THEN v.int < w.int ELSE StringRank(v.str) < StringRank(w.str)

RECURSIVE sorted(_)
\* tuple(sorted(unique_values))
sorted(unique_values) ==
    IF unique_values = {} THEN << >>
    ELSE LET least == CHOOSE v \in unique_values :
                         \A w \in unique_values \ {v} : PyLess(v, w)
         IN  <<least>> \o sorted(unique_values \ {least})

\* What the set item adds to unique_values for one observed value: an int
\* as it is, anything else as its str().
SetElement(v) == IF v.type = "int" THEN v ELSE StrVal(v.str)

\* unique_values after the loop over the observed values.
UniqueValues(values) == {SetElement(values[i]) : i \in 1..Len(values)}

RECURSIVE SumFrom(_, _)
\* The loop of the sum item from value i on.
SumFrom(values, i) ==
    IF i > Len(values) THEN 0
    ELSE coerce_value_to_int(values[i]) + SumFrom(values, i + 1)

\* execution_value_samples.get(name, [])
SamplesOf(samples, name) == IF name \in DOMAIN samples THEN samples[name] ELSE << >>

\* latest_values as execute_binary derives it from the samples.
LatestValues_first(samples) ==
    [name \in {m \in DOMAIN samples : samples[m] /= << >>} |-> samples[name][1]]
LatestValues(samples) ==
    [name \in {m \in DOMAIN samples : samples[m] /= << >>} |->
        samples[name][Len(samples[name])]]

\* The environment the evaluator reads: the int observations by name.  The
\* expressions of the model name int observations only.
IntEnv(values) ==
    [name \in {m \in DOMAIN values : values[m].type = "int"} |-> values[name].int]

\* The counter item's max_length.
MaxLength_shortest(samples) ==
    IF DOMAIN samples = {} THEN 0
    ELSE LET shortest == CHOOSE m \in DOMAIN samples :
                            \A k \in DOMAIN samples : Len(samples[m]) <= Len(samples[k])
         IN  Len(samples[shortest])
MaxLength(samples) ==
    IF DOMAIN samples = {} THEN 0
    ELSE LET longest == CHOOSE m \in DOMAIN samples :
                           \A k \in DOMAIN samples : Len(samples[k]) <= Len(samples[m])
         IN  Len(samples[longest])

\* The counter item's step_values at step i (the i-th element, counted from 1).
StepValues(samples, i) ==
    [name \in {m \in DOMAIN samples : i <= Len(samples[m])} |-> samples[name][i]]

\* The counter item's count.
CounterOf(expr, samples) ==
    Cardinality({i \in 1..MaxLength(samples) :
                    eval_predicate_expression(expr, IntEnv(StepValues(samples, i)))})

\* The predicate item's value: 1 if the expression fired on the latest values.
PredicateValue_zero(expr, latest_values) == IntVal(0)
PredicateValue(expr, latest_values) ==
    IntVal(Bool(eval_predicate_expression(expr, IntEnv(latest_values))))

\* result[key] = value
Put(result, key, value) ==
    [k \in DOMAIN result \cup {key} |-> IF k = key THEN value ELSE result[k]]

\* The body of _compute_state_dict's loop for one item.
ProjectItem(item, samples, latest_values, result) ==
    CASE item.type = "value" ->
            IF item.name \in DOMAIN latest_values
            THEN Put(result, item.name, latest_values[item.name])
            ELSE result
      [] item.type = "sum" ->
            Put(result, item.name, IntVal(SumFrom(SamplesOf(samples, item.name), 1)))
      [] item.type = "predicate" ->
            Put(result, item.expr, PredicateValue(item.expr, latest_values))
      [] item.type = "counter" ->
            Put(result, item.expr, IntVal(CounterOf(item.expr, samples)))
      [] item.type = "set" ->
            Put(result, item.name,
                TupleVal(sorted(UniqueValues(SamplesOf(samples, item.name)))))
      [] OTHER -> result

RECURSIVE compute_state_dict_from(_, _, _, _, _)
\* The loop of _compute_state_dict from item i on.
compute_state_dict_from(spec, samples, latest_values, i, result) ==
    IF i > Len(spec) THEN result
    ELSE compute_state_dict_from(spec, samples, latest_values, i + 1,
                                 ProjectItem(spec[i], samples, latest_values, result))

compute_state_dict(spec, samples, latest_values) ==
    compute_state_dict_from(spec, samples, latest_values, 1, EmptyDict)

\* The sequences over S of length at most n.
SeqsUpTo(S, n) == UNION {[1..k -> S] : k \in 0..n}

\* The dicts that give each name of some subset of names a list from lists.
DictsOver(names, lists) == UNION {[K -> lists] : K \in SUBSET names}

\* The specs _compute_state_dict is called with.
ProjectSpecs ==
    StateSpecs \cup
    { << Item("predicate", "not n"), Item("counter", "a and b") >>,
      << Item("counter", "a or b"), Item("predicate", "a and b"), Item("value", "a") >>,
      << Item("set", "e"), Item("sum", "e"), Item("value", "e") >>,
      << Item("sum", "x"), Item("value", "s"), Item("set", "s") >>,
      << Item("predicate", "x > 3"), Item("counter", "not n") >> }

\* The samples _compute_state_dict is called with: the 0/1 observations a
\* and b, the int observation x with the str observation s, and the int
\* observation e.
SampleDicts ==
    DictsOver({"a", "b"}, SeqsUpTo({IntVal(0), IntVal(1)}, MaxSteps))
    \cup UNION {{xs @@ ss : ss \in DictsOver({"s"}, SeqsUpTo({StrVal("ab"), StrVal("b")},
                                                          MaxSteps))} :
                xs \in DictsOver({"x"}, SeqsUpTo({IntVal(1), IntVal(5)}, MaxSteps))}
    \cup DictsOver({"e"}, SeqsUpTo({IntVal(1), IntVal(2), IntVal(3)}, MaxSetSamples))

\* _compute_state_dict is called on the samples, with the latest values
\* execute_binary derives from them.
Project ==
    /\ ~projected
    /\ state_dicts' =
          [state_dicts EXCEPT ![1] =
              compute_state_dict(state_spec, execution_value_samples,
                                 LatestValues(execution_value_samples))]
    /\ projected' = TRUE
    /\ UNCHANGED <<state_spec, state_tuples, canonicalized, execution_value_samples>>

\* A spec and the samples of one execution.
ProjectInit ==
    /\ state_spec \in ProjectSpecs
    /\ execution_value_samples \in SampleDicts
    /\ state_dicts = <<EmptyDict, EmptyDict>>
    /\ state_tuples = << << >>, << >> >>
    /\ canonicalized = {}
    /\ projected = FALSE

----------------------------------------------------------------------------
(* execute_binary *)

\* A line of the target's stdout: "<prefix>: <token>".
Line(prefix, token) == [prefix |-> prefix, token |-> token]

\* The lines the target writes.
StdoutLines ==
    {Line(prefix, token) : prefix \in {"x", "max", "s", "ok"},
                           token \in {"42", "7", "true"}}
    \cup {Line("x", "")}

\* pattern in line, for pattern = "<exec_name>:": the prefix of the line ends
\* with the name.
PatternInLine(exec_name, line) ==
    \/ line.prefix = exec_name
    \/ line.prefix = "max" /\ exec_name = "x"

\* value_str: the first whitespace-delimited token after the pattern.
ValueStr(line) == line.token

\* value_str.isdigit()
IsDigit(value_str) == value_str \in {"42", "7"}

\* int(value_str), for a string of digits.
IntOfText(value_str) ==
    CASE value_str = "42" -> 42
      [] value_str = "7" -> 7

\* The conversion of value_str by the declared type: the value, or the
\* ValueError that makes the harness skip the line.
ParseValue(value_type, value_str) ==
    CASE value_type = "int" ->
            IF IsDigit(value_str)
            THEN [raised |-> "", value |-> IntVal(IntOfText(value_str))]
            ELSE [raised |-> "ValueError", value |-> IntVal(0)]
      [] value_type = "bool" ->
            [raised |-> "",
             value |-> IF IsDigit(value_str) THEN IntVal(IntOfText(value_str))
                       ELSE IF value_str = "true" THEN IntVal(1)
                       ELSE IntVal(0)]
      [] OTHER -> [raised |-> "", value |-> StrVal(value_str)]

RECURSIVE ParsedFrom(_, _, _, _)
\* The values appended for one configured name by the lines from line i on.
ParsedFrom(lines, i, exec_name, value_type) ==
    IF i > Len(lines) THEN << >>
    ELSE LET parsed == ParseValue(value_type, ValueStr(lines[i]))
         IN  (IF PatternInLine(exec_name, lines[i]) /\ parsed.raised = ""
              THEN <<parsed.value>>
              ELSE << >>)
             \o ParsedFrom(lines, i + 1, exec_name, value_type)

\* execution_value_samples after the scan of stdout: a list for each
\* configured name that got a value.
ParseStdout(lines, execution_values) ==
    LET all == [exec_name \in DOMAIN execution_values |->
                   ParsedFrom(lines, 1, exec_name, execution_values[exec_name])]
    IN  [exec_name \in {m \in DOMAIN all : all[m] /= << >>} |-> all[exec_name]]

\* The run configs of the model: the declared observations and the two specs.
RunConfigs ==
    { [execution_values |-> [name \in {"x"} |-> "int"],
       execution_state |-> << Item("value", "x") >>,
       mutation_context |-> << Item("value", "x") >>],
      [execution_values |-> [name \in {"x", "s", "ok"} |->
                                IF name = "x" THEN "int"
                                ELSE IF name = "ok" THEN "bool" ELSE "string"],
       execution_state |-> << Item("value", "x"), Item("set", "s"),
                              Item("counter", "x > 3") >>,
       mutation_context |-> << Item("value", "ok"), Item("sum", "x") >>] }

\* The exceptions subprocess.run raises.
ExecutorErrors == {"TimeoutExpired", "FileNotFoundError", "PermissionError"}

\* What the executor does: it raises, or the target runs and writes stdout.
ExecutorOutcomes ==
    {[raises |-> error, stdout |-> << >>] : error \in ExecutorErrors}
    \cup {[raises |-> "", stdout |-> lines] : lines \in SeqsUpTo(StdoutLines, MaxLines)}

\* except Exception: the handler catches the exception.
Caught_oserror(error) == error \in {"FileNotFoundError", "PermissionError"}
Caught(error) == error \in ExecutorErrors

\* The stdout field of the result: None, or the bytes the target wrote.
NoStdout == [none |-> TRUE, lines |-> << >>]
Stdout(lines) == [none |-> FALSE, lines |-> lines]

\* execute_binary(input_data, run_config).
ExecuteBinary ==
    /\ harness_pc = "called"
    /\ IF executor_outcome.raises /= ""
       THEN IF Caught(executor_outcome.raises)
            THEN /\ execution_result' =
                        [input_data |-> input_data,
                         execution_outcome |-> "CRASH",
                         execution_time |-> 0,
                         crash_info |-> executor_outcome.raises,
                         execution_state |-> << >>,
                         mutation_context |-> EmptyDict,
                         stdout |-> NoStdout]
                 /\ harness_pc' = "returned"
                 /\ UNCHANGED execution_value_samples
            ELSE /\ harness_pc' = "raised"
                 /\ UNCHANGED <<execution_result, execution_value_samples>>
       ELSE LET samples == ParseStdout(executor_outcome.stdout,
                                       run_config.execution_values)
                latest_values == LatestValues(samples)
                computed_state_dict ==
                    compute_state_dict(run_config.execution_state, samples, latest_values)
                computed_state ==
                    dict_to_state_tuple(run_config.execution_state, computed_state_dict)
                computed_mutation_context ==
                    compute_state_dict(run_config.mutation_context, samples, latest_values)
            IN  /\ execution_value_samples' = samples
                /\ execution_result' =
                        [input_data |-> input_data,
                         execution_outcome |-> "NORMAL",
                         execution_time |-> 1,
                         crash_info |-> None,
                         execution_state |-> computed_state,
                         mutation_context |-> computed_mutation_context,
                         stdout |-> Stdout(executor_outcome.stdout)]
                /\ harness_pc' = "returned"
    /\ UNCHANGED <<input_data, run_config, executor_outcome, state_spec, state_dicts,
                   state_tuples, canonicalized, projected>>

\* execute_binary has been called: its arguments, and what the executor
\* is going to do.
HarnessInit ==
    /\ harness_pc = "called"
    /\ input_data \in Inputs
    /\ run_config \in RunConfigs
    /\ executor_outcome \in ExecutorOutcomes
    /\ execution_result = << >>

\* A harness nobody calls.
HarnessAtRest ==
    /\ harness_pc = "idle"
    /\ input_data = "x"
    /\ run_config = << >>
    /\ executor_outcome = << >>
    /\ execution_result = << >>

----------------------------------------------------------------------------
(* operators.py: the ensure_unique decorator around insert_random_bytes *)

\* The strings the decorated operator is called with.
InputStrs == {"x", "y", "z"}

\* The test that guards the eviction before a novel digest is added.
HistoryFull(history) == Cardinality(history) > MAX_HISTORY_SIZE

\* The decorated operator is called.
WrapperCall ==
    /\ wrapper_pc = "idle"
    /\ input_str' \in InputStrs
    /\ attempts' = 0
    /\ wrapper_pc' = "loop"
    /\ UNCHANGED <<MUTATION_HISTORY, wrapper_result>>

\* One pass of the retry loop: the operator is invoked once; a novel result
\* is recorded and returned, and a pass after the last one falls through to
\* the return of the last attempt with two more random bytes.
WrapperTry ==
    /\ wrapper_pc = "loop"
    /\ \E mutated \in OperatorOutputs("insert_random_bytes", input_str) :
          LET m_hash == md5(mutated)
          IN  IF m_hash \notin MUTATION_HISTORY
              THEN /\ IF HistoryFull(MUTATION_HISTORY)
                      THEN \E d \in MUTATION_HISTORY :
                              MUTATION_HISTORY' = (MUTATION_HISTORY \ {d}) \cup {m_hash}
                      ELSE MUTATION_HISTORY' = MUTATION_HISTORY \cup {m_hash}
                   /\ wrapper_result' = mutated
                   /\ wrapper_pc' = "return"
                   /\ UNCHANGED attempts
              ELSE IF attempts + 1 < ensure_unique_max_retries
              THEN /\ attempts' = attempts + 1
                   /\ UNCHANGED <<MUTATION_HISTORY, wrapper_result, wrapper_pc>>
              ELSE /\ \E s \in RandomSuffixes : wrapper_result' = mutated \o s
                   /\ attempts' = attempts + 1
                   /\ wrapper_pc' = "return"
                   /\ UNCHANGED MUTATION_HISTORY
    /\ UNCHANGED input_str

\* The caller has the wrapper's result: the frame of the call is gone.
WrapperReturns ==
    /\ wrapper_pc = "return"
    /\ wrapper_pc' = "idle"
    /\ input_str' = "x"
    /\ attempts' = 0
    /\ wrapper_result' = ""
    /\ UNCHANGED MUTATION_HISTORY

\* The module as imported, no operator called: MUTATION_HISTORY = set().
DecoratorAtRest ==
    /\ MUTATION_HISTORY = {}
    /\ wrapper_pc = "idle"
    /\ input_str = "x"
    /\ attempts = 0
    /\ wrapper_result = ""

----------------------------------------------------------------------------
(* The specifications: one per component, the other components at rest *)

Init ==
    EngineInit /\ TrackerAtRest /\ ProjectorAtRest /\ HarnessAtRest /\ DecoratorAtRest

Next ==
    \/ (MutateCall /\ UNCHANGED <<trackerVars, projectorVars, harnessVars, decoratorVars>>)
    \/ (MutateSelect /\ UNCHANGED <<trackerVars, projectorVars, harnessVars, decoratorVars>>)
    \/ (MutateApply /\ UNCHANGED <<trackerVars, projectorVars, harnessVars, decoratorVars>>)
    \/ (Reload /\ UNCHANGED <<trackerVars, projectorVars, harnessVars, decoratorVars>>)
    \/ (CallReturns /\ UNCHANGED <<trackerVars, projectorVars, harnessVars, decoratorVars>>)

\* The mutation engine.
Spec == Init /\ [][Next]_vars

TrackerSpecInit ==
    TrackerInit /\ EngineAtRest /\ ProjectorAtRest /\ HarnessAtRest /\ DecoratorAtRest

TrackerNext ==
    \/ (AddSample /\ UNCHANGED <<engineVars, projectorVars, harnessVars, decoratorVars>>)
    \/ (GetResult /\ UNCHANGED <<engineVars, projectorVars, harnessVars, decoratorVars>>)
    \/ (IsCoveragePlateau /\ UNCHANGED <<engineVars, projectorVars, harnessVars, decoratorVars>>)
    \/ (ResetTimeSinceLastCoverage /\ UNCHANGED <<engineVars, projectorVars, harnessVars, decoratorVars>>)
    \/ (TrackerReturns /\ UNCHANGED <<engineVars, projectorVars, harnessVars, decoratorVars>>)
    \/ (Tick /\ UNCHANGED <<engineVars, projectorVars, harnessVars, decoratorVars>>)

\* The corpus stat tracker.
SpecTracker == TrackerSpecInit /\ [][TrackerNext]_vars

ProjectorSpecInit ==
    ProjectorInit /\ EngineAtRest /\ TrackerAtRest /\ HarnessAtRest /\ DecoratorAtRest

ProjectorNext ==
    \/ (Canonicalize /\ UNCHANGED <<engineVars, trackerVars, harnessVars, decoratorVars>>)

\* The state projector.
SpecProjector == ProjectorSpecInit /\ [][ProjectorNext]_vars

ProjectSpecInit ==
    ProjectInit /\ EngineAtRest /\ TrackerAtRest /\ HarnessAtRest /\ DecoratorAtRest

ProjectNext ==
    \/ (Project /\ UNCHANGED <<engineVars, trackerVars, harnessVars, decoratorVars>>)
    \/ (projected /\ Canonicalize /\ UNCHANGED <<engineVars, trackerVars, harnessVars, decoratorVars>>)

\* The projection of one execution's samples, then its canonical tuple.
SpecProject == ProjectSpecInit /\ [][ProjectNext]_vars

HarnessSpecInit ==
    HarnessInit /\ EngineAtRest /\ TrackerAtRest /\ ProjectorAtRest /\ DecoratorAtRest

HarnessNext ==
    \/ (ExecuteBinary /\ UNCHANGED <<engineVars, trackerVars, decoratorVars>>)

\* The execution harness.
SpecHarness == HarnessSpecInit /\ [][HarnessNext]_vars

DecoratorSpecInit ==
    DecoratorAtRest /\ EngineAtRest /\ TrackerAtRest /\ ProjectorAtRest /\ HarnessAtRest

DecoratorNext ==
    \/ (WrapperCall
          /\ UNCHANGED <<engineVars, trackerVars, projectorVars, harnessVars>>)
    \/ (WrapperTry
          /\ UNCHANGED <<engineVars, trackerVars, projectorVars, harnessVars>>)
    \/ (WrapperReturns
          /\ UNCHANGED <<engineVars, trackerVars, projectorVars, harnessVars>>)

\* The decorated operator of operators.py.
SpecDecorator == DecoratorSpecInit /\ [][DecoratorNext]_vars

----------------------------------------------------------------------------
(* Claims about the mutation engine *)

\* C1: whenever a mutate call has returned or raised (and at every step in
\* between), the mutation history holds at most max_mutation_history_size
\* digests.
C1_HistoryBound == Cardinality(mutation_history) <= max_mutation_history_size

\* A mutate call that returned after the history reached its cap and an entry
\* was evicted.
C1_Witness ==
    /\ pc = "return"
    /\ last_call = "mutate"
    /\ evicted /= {}
    /\ Cardinality(mutation_history) = max_mutation_history_size - 1

\* C2, as claimed: within one mutate call no two emitted byte strings share a
\* digest unless the retries of the later one were exhausted. An iteration that
\* exhausts its retries emits nothing (MutateApply), so no emitted string is
\* excused by it.
C2_NoSharedDigest ==
    \A i, j \in 1..Len(mutations) :
        i < j => md5(mutations[i][1]) /= md5(mutations[j][1])

\* C2, amended: within one mutate call two emitted byte strings share a digest
\* only if that digest was evicted from the history during the call.
C2_SharedDigestOnlyAfterEviction ==
    \A i, j \in 1..Len(mutations) :
        (i < j /\ md5(mutations[i][1]) = md5(mutations[j][1]))
            => md5(mutations[i][1]) \in evicted

\* A mutate call that emitted two byte strings while the history was at its
\* cap and evicted an entry.
C2_Witness ==
    /\ pc = "return"
    /\ last_call = "mutate"
    /\ Len(mutations) >= 2
    /\ evicted /= {}

\* C3: an iteration whose retries all collide still emits its last attempt, so
\* a mutate call that returns has emitted one entry per iteration.
C3_EveryIterationEmits ==
    (pc = "return" /\ last_call = "mutate") => Len(mutations) = num_mutations

\* C4: a reload() that raises leaves the engine's operators and rules as they
\* were before the call.
C4_ReloadAtomic ==
    [][(pc = "idle" /\ last_call' = "reload" /\ raised' /= "")
          => (operators' = operators /\ rules' = rules)]_vars

\* The rules whose condition is absent or holds in the context.
MatchingRules(rls, ctx) ==
    {i \in 1..Len(rls) :
        rls[i].condition = None \/ eval_predicate_expression(rls[i].condition, ctx)}

\* The first of them in declaration order, 0 when there is none.
FirstMatch(rls, ctx) ==
    IF MatchingRules(rls, ctx) = {} THEN 0
    ELSE CHOOSE i \in MatchingRules(rls, ctx) : \A j \in MatchingRules(rls, ctx) : i <= j

\* The rule list with a rule inserted so that it becomes the one at position p.
InsertAt(rls, p, rule) == SubSeq(rls, 1, p - 1) \o <<rule>> \o SubSeq(rls, p, Len(rls))

\* The rules inserted.
InsertedRules ==
    { Rule(None, <<OpEntry("failing", 1)>>),
      Rule("n == 0", <<OpEntry("failing", 1)>>),
      Rule("n > 0", <<OpEntry("failing", 1)>>) }

\* C5: select_rule returns the first rule in declaration order whose condition
\* is absent or evaluates true (None when there is none); a rule inserted
\* anywhere after the first matching rule does not change the rule selected;
\* and the operator mutate applies is one of that rule's.
C5_FirstMatch ==
    /\ \A ctx \in MutationContexts :
          /\ select_rule(rules, ctx) = FirstMatch(rules, ctx)
          /\ \A p \in (FirstMatch(rules, ctx) + 1)..(Len(rules) + 1), new \in InsertedRules :
                FirstMatch(rules, ctx) /= 0 =>
                    /\ select_rule(InsertAt(rules, p, new), ctx) = select_rule(rules, ctx)
                    /\ InsertAt(rules, p, new)[select_rule(InsertAt(rules, p, new), ctx)]
                          = rules[select_rule(rules, ctx)]
    /\ pc = "apply" =>
          op_name \in select_operator(rules[FirstMatch(rules, mutation_context)])

\* mutate applies an operator of a rule that is not the only one matching the
\* context, and of a rule that is not the first of the strategy.
C5_Witness ==
    /\ pc = "apply"
    /\ Cardinality(MatchingRules(rules, mutation_context)) >= 2
    /\ \E r2 \in StrategyFiles, ctx \in MutationContexts : FirstMatch(r2.rules, ctx) = 2

\* What _load_strategy is said to guarantee of the rules it accepted.
LoadedRulesSound ==
    \A i \in 1..Len(rules) :
        /\ rules[i].has_operators
        /\ rules[i].is_list
        /\ Len(rules[i].operators) >= 1
        /\ \A j \in 1..Len(rules[i].operators) :
              EntryValid(rules[i].operators[j], operators)

\* C13: after a load that succeeded (the constructor's, or a reload() that
\* returned) every rule has at least one operator entry, and every entry
\* names a loaded operator with a weight above zero.
C13_LoadedRulesHaveOperators ==
    (last_call = "init" \/ (last_call = "reload" /\ pc = "return"))
        => LoadedRulesSound

\* No rule of the strategy matches the context of the current mutate call.
NoRuleMatches == select_rule(rules, mutation_context) = 0

\* What C14 says of a mutate call that found no matching rule.
FailedWithNoMatchingRule ==
    /\ pc = "raise"
    /\ raised = "ValueError: No matching rule"
    /\ ~invoked
    /\ mutations = << >>
    /\ mutation_history = history_before

\* C14 as stated: whenever no rule matches the context, a finished mutate
\* call has failed with the no-matching-rule error, invoked no operator,
\* emitted nothing and left the history as it was.
C14_NoMatchFails ==
    (last_call = "mutate" /\ CallDone /\ NoRuleMatches)
        => FailedWithNoMatchingRule

\* C14, amended: the same for a mutate call that asks for at least one
\* mutation of an engine that has operators and rules.
C14_NoMatchFailsWhenIterating ==
    (/\ last_call = "mutate"
     /\ CallDone
     /\ NoRuleMatches
     /\ num_mutations >= 1
     /\ operators /= {}
     /\ rules /= << >>)
        => FailedWithNoMatchingRule

\* A mutate call on an engine with a history failed for want of a matching rule.
C14_Witness ==
    /\ last_call = "mutate"
    /\ pc = "raise"
    /\ raised = "ValueError: No matching rule"
    /\ num_mutations >= 1
    /\ history_before /= {}

\* C20: when mutate fails because an operator raised, the mutation history is
\* what it was when mutate was called.
C20_OperatorFailureLeavesHistory ==
    (last_call = "mutate" /\ pc = "raise" /\ raised = "RuntimeError")
        => mutation_history = history_before

----------------------------------------------------------------------------
(* Claims about the corpus stat tracker *)

\* C6: over every add_sample with bitmaps of length MAP_SIZE, every position
\* of the global edge bitmap that is set stays set, the three global bitmaps
\* keep the length MAP_SIZE, and the total_edges get_result reports does not
\* decrease.
C6_BitmapMonotone ==
    [][/\ \A i \in 1..Len(cov_bitmap) :
             cov_bitmap[i] /= 0 => (i <= Len(cov_bitmap') /\ cov_bitmap'[i] /= 0)
       /\ Len(cov_bitmap') = MAP_SIZE
       /\ Len(branch_taken') = MAP_SIZE
       /\ Len(branch_fallthrough') = MAP_SIZE
       /\ total_edges(cov_bitmap') >= total_edges(cov_bitmap)
       /\ (tracker_pc' = "get_result" =>
              /\ stat_result'.total_edges = total_edges(cov_bitmap')
              /\ stat_result'.total_edges >= total_edges(cov_bitmap))]_vars

\* get_result reports every edge after several samples were added.
C6_Witness ==
    /\ tracker_pc = "get_result"
    /\ num_samples >= 2
    /\ stat_result.total_edges = MAP_SIZE

\* C7, as claimed: for every configured timeout, is_coverage_plateau() called
\* right after an add_sample that set a new edge, with no time elapsed,
\* returns false.
C7_NoPlateauAfterNewEdge ==
    [][(tracker_pc' = "is_coverage_plateau" /\ fresh_edge) => plateau' = FALSE]_vars

\* C7, amended: the same for every configured timeout greater than zero.
C7_NoPlateauAfterNewEdgePositiveTimeout ==
    [][(tracker_pc' = "is_coverage_plateau" /\ fresh_edge /\ coverage_plateau_timeout > 0)
          => plateau' = FALSE]_vars

\* is_coverage_plateau() has returned false right after a sample that set a
\* new edge, at a time when the tracker had been on a plateau before the sample.
C7_Witness ==
    /\ tracker_pc = "is_coverage_plateau"
    /\ fresh_edge
    /\ coverage_plateau_timeout > 0
    /\ now >= coverage_plateau_timeout
    /\ ~plateau

\* C8: last_coverage_time changes only in an add_sample that sets a new edge
\* or in reset_time_since_last_coverage(); an add_sample that sets no new edge
\* leaves it unchanged, whatever else it adds; and is_coverage_plateau() is
\* true exactly when coverage_plateau_timeout has elapsed since
\* last_coverage_time.
C8_CoverageTimeOnlyOnNewEdge ==
    [][/\ last_coverage_time' /= last_coverage_time =>
             \/ (num_samples' = num_samples + 1 /\ cov_bitmap' /= cov_bitmap)
             \/ tracker_pc' = "reset_time_since_last_coverage"
       /\ (num_samples' = num_samples + 1 /\ cov_bitmap' = cov_bitmap) =>
             last_coverage_time' = last_coverage_time
       /\ tracker_pc' = "is_coverage_plateau" =>
             plateau' = (now - last_coverage_time >= coverage_plateau_timeout)]_vars

\* is_coverage_plateau() returns true after samples that added branch bits and
\* instruction addresses but never an edge, the timeout having elapsed since
\* the tracker was built.
C8_Witness ==
    /\ tracker_pc = "is_coverage_plateau"
    /\ plateau
    /\ coverage_plateau_timeout > 0
    /\ last_coverage_time = 0
    /\ num_samples >= 2
    /\ total_edges(cov_bitmap) = 0
    /\ total_branch_sites(branch_taken, branch_fallthrough) > 0
    /\ instruction_addresses /= {}

\* Every position the sample's bitmap sets is set in the global bitmap.
Covers(gb, rb) == rb = NoBitmap \/ \A i \in 1..MAP_SIZE : rb[i] /= 0 => gb[i] /= 0

\* C19: after add_sample of a sample that carries either of the two optional
\* branch bitmaps, the global branch-taken bitmap has every position set that
\* the sample's branch-taken bitmap sets, and the same for fallthrough; and
\* get_result's total_branch_sites is the number of positions set in either
\* global bitmap.
C19_BranchBitmapsMerged ==
    [][/\ \A sample \in Samples :
             (/\ AddSampleOf(sample)
              /\ \/ sample.branch_taken_bitmap /= NoBitmap
                 \/ sample.branch_fallthrough_bitmap /= NoBitmap)
                => /\ Covers(branch_taken', sample.branch_taken_bitmap)
                   /\ Covers(branch_fallthrough', sample.branch_fallthrough_bitmap)
       /\ (tracker_pc = "idle" /\ tracker_pc' = "get_result")
             => stat_result'.total_branch_sites =
                   Cardinality({i \in 1..MAP_SIZE :
                                   branch_taken[i] /= 0 \/ branch_fallthrough[i] /= 0})
      ]_vars

----------------------------------------------------------------------------
(* Claims about the state projector *)

\* The word the label carries for a kind, as the spec's scenarios write it.
KindWord(type) == IF type = "counter" THEN "count" ELSE type

RECURSIVE LabelledTuple(_, _, _)
\* The flattening as C9 claims it: every item whose key is present
\* contributes the label "<key> (<kind>)" and its value.
LabelledTuple(spec, state_dict, i) ==
    IF i > Len(spec) THEN << >>
    ELSE IF DisplayKey(spec[i]) \in DOMAIN state_dict
        THEN <<StrVal(DisplayKey(spec[i]) \o " (" \o KindWord(spec[i].type) \o ")"),
               state_dict[DisplayKey(spec[i])]>>
                \o LabelledTuple(spec, state_dict, i + 1)
        ELSE LabelledTuple(spec, state_dict, i + 1)

\* C9: the tuple of a state dict holds, for each item of the spec in
\* declaration order whose display key is present, the label "<key> (<kind>)"
\* and then the value, for all five kinds, and nothing for a missing key.
C9_EveryItemLabelled ==
    \A which \in canonicalized :
        state_tuples[which] = LabelledTuple(state_spec, state_dicts[which], 1)

\* C10: for one spec, the tuples of two state dicts are equal if and only if
\* the state dicts are equal.
C10_TupleEqualityIsDictEquality ==
    canonicalized = {1, 2} =>
        ((state_tuples[1] = state_tuples[2]) <=> (state_dicts[1] = state_dicts[2]))

----------------------------------------------------------------------------
(* Claims about _compute_state_dict *)

\* The state dict _compute_state_dict returned.
Projected == state_dicts[1]

\* Item i is the only item of the spec that writes its key.
OnlyWriter(i) ==
    \A j \in 1..Len(state_spec) :
        j /= i => DisplayKey(state_spec[j]) /= DisplayKey(state_spec[i])

\* Item i is the last item of the spec that writes its key.
LastWriter(i) ==
    \A j \in (i + 1)..Len(state_spec) :
        DisplayKey(state_spec[j]) /= DisplayKey(state_spec[i])

\* The name has no observed value: it is absent from the samples or its
\* list is empty, and so it is absent from the latest values.
Unobserved(name) ==
    name \notin DOMAIN execution_value_samples \/ execution_value_samples[name] = << >>

\* No name has an observed value.
SamplesEmpty == \A name \in DOMAIN execution_value_samples : Unobserved(name)

\* C11: the state dict has no key for a value item or a sum item whose name
\* has no observed samples.
C11_UnobservedOmitted ==
    projected =>
        \A i \in 1..Len(state_spec) :
            (/\ state_spec[i].type \in {"value", "sum"}
             /\ OnlyWriter(i)
             /\ Unobserved(state_spec[i].name))
                => state_spec[i].name \notin DOMAIN Projected

\* C12 as stated: the key of a predicate item or a counter item is always in
\* the state dict, and its value is 0 whenever the samples are empty,
\* whatever the expression.
C12_ZeroOnEmptySamples ==
    projected =>
        \A i \in 1..Len(state_spec) :
            (state_spec[i].type \in {"predicate", "counter"} /\ LastWriter(i))
                => /\ state_spec[i].expr \in DOMAIN Projected
                   /\ SamplesEmpty => Projected[state_spec[i].expr] = IntVal(0)

\* The expression is true when every identifier it names is unknown.
TrueOfNothing(expr) == eval_predicate_expression(expr, EmptyDict)

\* C12, amended: the key of a predicate item or a counter item is always in
\* the state dict; when the samples are empty a counter is 0, and a predicate
\* is 1 if its expression is true with every identifier unknown, else 0.
C12_EmptySamplesValues ==
    projected =>
        \A i \in 1..Len(state_spec) :
            (state_spec[i].type \in {"predicate", "counter"} /\ LastWriter(i))
                => /\ state_spec[i].expr \in DOMAIN Projected
                   /\ SamplesEmpty =>
                        Projected[state_spec[i].expr] =
                            IF /\ state_spec[i].type = "predicate"
                               /\ TrueOfNothing(state_spec[i].expr)
                            THEN IntVal(1)
                            ELSE IntVal(0)

\* Empty samples were projected by a spec with a counter and with a
\* predicate that is true of nothing.
C12_Witness ==
    /\ projected
    /\ SamplesEmpty
    /\ \E i, j \in 1..Len(state_spec) :
          /\ state_spec[i].type = "predicate"
          /\ TrueOfNothing(state_spec[i].expr)
          /\ Projected[state_spec[i].expr] = IntVal(1)
          /\ state_spec[j].type = "counter"
          /\ Projected[state_spec[j].expr] = IntVal(0)

\* The tuple is in strictly ascending order: ints by value, strs as sorted()
\* orders them.
Ascending(q) ==
    \A k \in 1..(Len(q) - 1) :
        IF q[k].type = "int"
        THEN q[k + 1].type = "int" /\ q[k].int < q[k + 1].int
        ELSE q[k + 1].type = "str" /\ StringRank(q[k].str) < StringRank(q[k + 1].str)

\* The values in the list, as a set.
Observed(values) == {values[k] : k \in 1..Len(values)}

\* C17: the value of a set item is the tuple of the distinct observed values
\* of its name in ascending order, so it is fixed by the set of observed
\* values; observations 3, 1, 2, 1 give (1, 2, 3) and none gives ().
C17_SetIsSortedUnique ==
    projected =>
        \A i \in 1..Len(state_spec) :
            (state_spec[i].type = "set" /\ LastWriter(i))
                => LET values == SamplesOf(execution_value_samples, state_spec[i].name)
                       q == Projected[state_spec[i].name].items
                   IN  /\ Projected[state_spec[i].name].type = "tuple"
                       /\ Ascending(q)
                       /\ Observed(q) = Observed(values)
                       /\ values = <<IntVal(3), IntVal(1), IntVal(2), IntVal(1)>>
                            => q = <<IntVal(1), IntVal(2), IntVal(3)>>
                       /\ values = << >> => q = << >>

\* The observations 3, 1, 2, 1 were projected by a spec with a set item.
C17_Witness ==
    /\ projected
    /\ \E i \in 1..Len(state_spec) :
          /\ state_spec[i].type = "set"
          /\ LastWriter(i)
          /\ SamplesOf(execution_value_samples, state_spec[i].name)
                = <<IntVal(3), IntVal(1), IntVal(2), IntVal(1)>>

\* The length of the longest list of observed values, 0 without any.
LongestList ==
    LET lengths == {Len(execution_value_samples[name]) :
                       name \in DOMAIN execution_value_samples} \cup {0}
    IN  CHOOSE n \in lengths : \A k \in lengths : k <= n

\* The environment of step i: the i-th observed int (counted from 1) of each
\* name that has one.
StepEnv(i) ==
    [name \in {m \in DOMAIN execution_value_samples :
                  /\ Len(execution_value_samples[m]) >= i
                  /\ execution_value_samples[m][i].type = "int"} |->
        execution_value_samples[name][i].int]

\* C18: the value of a counter item is the number of steps, up to the length
\* of the longest sample list, at which its expression is true of the
\* observations that have a value at that step; a = 1, 0, 1 and b = 0, 0, 1
\* give 1 for "a and b".
C18_CounterCountsSteps ==
    projected =>
        \A i \in 1..Len(state_spec) :
            (state_spec[i].type = "counter" /\ LastWriter(i))
                => Projected[state_spec[i].expr] =
                      IntVal(Cardinality({k \in 1..LongestList :
                          eval_predicate_expression(state_spec[i].expr, StepEnv(k))}))

\* The observations of the example were projected by a counter of "a and b",
\* which came out as 1.
C18_Witness ==
    /\ projected
    /\ execution_value_samples =
          [name \in {"a", "b"} |->
              IF name = "a" THEN <<IntVal(1), IntVal(0), IntVal(1)>>
              ELSE <<IntVal(0), IntVal(0), IntVal(1)>>]
    /\ \E i \in 1..Len(state_spec) :
          /\ state_spec[i] = Item("counter", "a and b")
          /\ Projected["a and b"] = IntVal(1)

----------------------------------------------------------------------------
(* Claims about execute_binary *)

\* C15: when the executor raises, timeout included, execute_binary returns
\* instead of raising, and its result has outcome CRASH, the empty tuple as
\* execution state, the empty dict as mutation context, and the input bytes
\* it was given.
C15_ExecutorFailureIsCrash ==
    (harness_pc /= "called" /\ executor_outcome.raises /= "")
        => /\ harness_pc = "returned"
           /\ execution_result.execution_outcome = "CRASH"
           /\ execution_result.execution_state = << >>
           /\ execution_result.mutation_context = EmptyDict
           /\ execution_result.input_data = input_data

\* execute_binary returned after the executor timed out.
C15_Witness ==
    /\ harness_pc = "returned"
    /\ executor_outcome.raises = "TimeoutExpired"
    /\ execution_result.execution_outcome = "CRASH"

RECURSIVE EmittedFrom(_, _)
\* The ints v of the lines that hold the text "x: v" ("x: v" itself, or
\* "max: v") from line i on, in the order of the lines.
EmittedFrom(lines, i) ==
    IF i > Len(lines) THEN << >>
    ELSE (IF lines[i].prefix \in {"x", "max"} /\ lines[i].token \in {"42", "7"}
          THEN <<IF lines[i].token = "42" THEN 42 ELSE 7>>
          ELSE << >>)
         \o EmittedFrom(lines, i + 1)

\* C16: for the int observation x, the lines of stdout with "x: v" give the
\* sample list of their values in emission order; a value item on x projects
\* to the last of them, and the canonical tuple of that item is
\* ("x (value)", last); "x: 42" alone gives [42], {x: 42}, ("x (value)", 42).
C16_ValueIsLastEmitted ==
    (/\ harness_pc = "returned"
     /\ executor_outcome.raises = ""
     /\ EmittedFrom(executor_outcome.stdout, 1) /= << >>)
        => LET emitted == EmittedFrom(executor_outcome.stdout, 1)
               last == IntVal(emitted[Len(emitted)])
           IN  /\ execution_value_samples["x"] =
                     [k \in 1..Len(emitted) |-> IntVal(emitted[k])]
               /\ SubSeq(execution_result.execution_state, 1, 2)
                     = <<StrVal("x (value)"), last>>
               /\ run_config.mutation_context = <<Item("value", "x")>>
                    => execution_result.mutation_context = [name \in {"x"} |-> last]
               /\ (/\ executor_outcome.stdout = <<Line("x", "42")>>
                   /\ run_config.execution_state = <<Item("value", "x")>>)
                    => /\ execution_value_samples = [name \in {"x"} |-> <<IntVal(42)>>]
                       /\ execution_result.execution_state
                             = <<StrVal("x (value)"), IntVal(42)>>

\* Three lines emitted x, the last value differing from the first.
C16_Witness ==
    /\ harness_pc = "returned"
    /\ executor_outcome.raises = ""
    /\ Len(EmittedFrom(executor_outcome.stdout, 1)) = 3
    /\ execution_result.execution_state[2] = IntVal(7)
    /\ execution_value_samples["x"][1] = IntVal(42)

----------------------------------------------------------------------------
(* Claims about the ensure_unique decorator *)

\* C21: after any sequence of calls to a decorated operator, MUTATION_HISTORY
\* holds no more than MAX_HISTORY_SIZE digests.
C21_OperatorHistoryBound == Cardinality(MUTATION_HISTORY) <= MAX_HISTORY_SIZE

====
